---- MODULE Spec2Model ----
(***************************************************************************)
(* Model of the Kuprik Qurilish AI assistant backend:                      *)
(*   - middleware/rateLimiter.js : the per-client request counter with a   *)
(*     12 hour window, its JSON file and its hourly sweep (Spec);          *)
(*   - services/aiService.js     : matchFAQ, keywordMatch, aiMatch and the *)
(*     cascade of detectNavigation (SpecNav);                              *)
(*   - routes/assistant.js       : requests of one client in progress at   *)
(*     the same time, through the middleware and the handler (SpecConc);   *)
(*   - routes/assistant.js, index.js : one request from the router to its  *)
(*     response on each route (SpecRoute);                                 *)
(*   - services/aiService.js     : matchFAQ, keywordMatch and the scoring  *)
(*     of a keyword as functions of the list and the query (SpecMatch);    *)
(*   - middleware/rateLimiter.js : the same counter when a write of its    *)
(*     file fails or leaves a file that cannot be parsed (SpecFail).       *)
(* Node runs every callback to completion, so each action below is one     *)
(* synchronous run of a function between two awaits.                       *)
(***************************************************************************)
EXTENDS Integers, Sequences, FiniteSets, TLC

(***************************************************************************)
(* Bounds of the model.                                                    *)
(***************************************************************************)
\* how many times the clock may advance in one behaviour
MaxTicks == 2
\* how many requests each of the occasional clients sends in one behaviour
MaxLight == 1

\* how many detectNavigation calls may be in progress at the same time
NumCalls == 2
\* how many requests of one client may be in progress at the same time
NumRequests == 2

\* how many items the lists given to matchFAQ and keywordMatch may hold
MaxItems == 2

(***************************************************************************)
(* RATE_LIMIT configuration, rateLimiter.js lines 14-18.                   *)
(***************************************************************************)
MAX_REQUESTS == 30
WINDOW_MS == 12 * 60 * 60 * 1000
\* 1000 * 60 * 60, the divisor of hoursLeft (line 109)
MS_PER_HOUR == 1000 * 60 * 60

\* the derived keys `${ip}_${hashString(userAgent)}` of the clients
Idents == {"c1", "c2"}
\* the clients other than "c1" send only a few requests (MaxLight); "c1" sends
\* as many as it likes
LightClients == {"c2"}

\* the amounts by which the clock advances between two callbacks: one
\* millisecond, or a whole window (so that "exactly WINDOW_MS later" and
\* "WINDOW_MS + 1 later" both happen)
ClockSteps == {1, WINDOW_MS}

VARIABLES
    requestStore,   \* the Map identifier -> {count, firstRequest, lastRequest}
    rateLimitFile,  \* data/rateLimits.json: [exists, data]
    now,            \* Date.now()
    ticks,          \* how many times the clock has advanced
    res,            \* what the last call answered (response or return value)
    saves,          \* how many times the last callback ran saveRateLimits
    admitted,       \* history: requests let through per identifier in its
                    \* current window, by the running process
    windowStart,    \* history: time of the request that opened the window
    restarted,      \* history: the process restarted during the window
    sent,           \* how many requests each occasional client has sent
    found,          \* history: the record the last rateLimiter call found
                    \* under its identifier (<<>> when there was none)
    calls,          \* the detectNavigation calls in progress
    reqs,           \* the requests of client "c1" in progress
    exchange,       \* the HTTP request being served and what ran for it
    probe           \* the last matcher evaluation: its inputs and its result

limiterVars == <<requestStore, rateLimitFile, now, ticks, res, saves,
                 admitted, windowStart, restarted, sent, found>>
navVars == <<calls>>
reqVars == <<reqs>>
routeVars == <<exchange>>
matchVars == <<probe>>
vars == <<limiterVars, navVars, reqVars, routeVars, matchVars>>

(***************************************************************************)
(* Map operations.                                                         *)
(***************************************************************************)
EmptyMap == [k \in {} |-> 0]
MapSet(m, k, v) == [x \in (DOMAIN m) \cup {k} |-> IF x = k THEN v ELSE m[x]]
MapDelete(m, ks) == [x \in (DOMAIN m) \ ks |-> m[x]]

(***************************************************************************)
(* Persistence: saveRateLimits / loadRateLimits.                           *)
(***************************************************************************)
\* what fs.writeFileSync does (line 39): it writes the file; it throws
\* before it touched the file (it could not open it); or it throws after it
\* emptied the file and before the content was whole
WriteOutcomes == {"written", "refused", "torn"}

\* a file whose content is not JSON
TornFile == [exists |-> TRUE, data |-> EmptyMap, torn |-> TRUE]

\* the file after fs.writeFileSync(RATE_LIMIT_FILE, JSON.stringify(data))
writeFileSync(store, file, write) ==
    IF write = "written" THEN [exists |-> TRUE, data |-> store]
    ELSE IF write = "refused" THEN file
    ELSE TornFile

\* variant: without the try / catch, what writeFileSync throws reaches the
\* caller
saveRateLimits_noCatch(store, file, write) ==
    [file |-> writeFileSync(store, file, write),
     thrown |-> write # "written"]

\* lines 36-43: Object.fromEntries(requestStore) written as JSON; what a
\* failing write throws is caught and logged.  file: the file afterwards,
\* thrown: whether the caller gets an exception
saveRateLimits(store, file, write) ==
    [file |-> writeFileSync(store, file, write),
     thrown |-> FALSE]

\* lines 21-33: a fresh Map filled from the entries of the parsed file, if
\* it exists; JSON.parse throws on a file that is not JSON, which is caught
\* before any entry is set
loadRateLimits(file) ==
    IF file.exists
    THEN IF "torn" \in DOMAIN file THEN EmptyMap
         ELSE [k \in DOMAIN file.data |-> file.data[k]]
    ELSE EmptyMap

(***************************************************************************)
(* The pieces of rateLimiter(req, res, next).                              *)
(***************************************************************************)
\* variant: the first request of a window is not counted
NewRecord_uncounted(t) == [count |-> 0, firstRequest |-> t, lastRequest |-> t]

\* lines 83-87 and 96-100: the record of the first request of a window
NewRecord(t) == [count |-> 1, firstRequest |-> t, lastRequest |-> t]

\* variant: the window measured from the last request instead of the first
WindowExpired_fromLast(record, t) == t - record.lastRequest > WINDOW_MS

\* line 94 (also 51 and 169): now - record.firstRequest > WINDOW_MS
WindowExpired(record, t) == t - record.firstRequest > WINDOW_MS

\* variant: > instead of >=
LimitReached_offByOne(record) == record.count > MAX_REQUESTS

\* line 107: record.count >= MAX_REQUESTS
LimitReached(record) == record.count >= MAX_REQUESTS

\* variant: the count is raised on a copy of the record and lost
Incremented_lost(record, t) == [record EXCEPT !.lastRequest = t]

\* lines 122-123: record.count++; record.lastRequest = now
Incremented(record, t) ==
    [record EXCEPT !.count = record.count + 1, !.lastRequest = t]

\* variant: a save every 10th request
SaveDue_every10(record) == record.count % 10 = 0

\* variant: a save every 7th request
SaveDue_every7(record) == record.count % 7 = 0

\* line 127: record.count % 5 === 0
SaveDue(record) == record.count % 5 = 0

\* Math.ceil(x / d) for d > 0
CeilDiv(x, d) == IF x % d = 0 THEN x \div d ELSE (x \div d) + 1

\* variant: resetAt counted from the time of the denied request
Denied_fromNow(id, record, t) ==
    [op |-> "rateLimiter", id |-> id, at |-> t, outcome |-> "429",
     error |-> "RATE_LIMIT_EXCEEDED",
     hoursLeft |-> CeilDiv(WINDOW_MS, MS_PER_HOUR),
     resetAt |-> t + WINDOW_MS,
     remaining |-> 0,
     headers |-> <<>>]

\* lines 108-118: the 429 answer
Denied(id, record, t) ==
    [op |-> "rateLimiter", id |-> id, at |-> t, outcome |-> "429",
     error |-> "RATE_LIMIT_EXCEEDED",
     hoursLeft |-> CeilDiv(record.firstRequest + WINDOW_MS - t, MS_PER_HOUR),
     resetAt |-> record.firstRequest + WINDOW_MS,
     remaining |-> 0,
     headers |-> <<>>]

\* lines 90 and 103: return next() before any header is set
PassedFirst(id, t) ==
    [op |-> "rateLimiter", id |-> id, at |-> t, outcome |-> "next",
     headers |-> <<>>]

\* lines 132-142: the three headers, then next()
Passed(id, record, t) ==
    [op |-> "rateLimiter", id |-> id, at |-> t, outcome |-> "next",
     headers |-> <<[limit |-> MAX_REQUESTS,
                    remaining |-> MAX_REQUESTS - record.count,
                    reset |-> record.firstRequest + WINDOW_MS]>>]

NoResponse == [op |-> "none"]

\* an exception thrown inside the middleware: Express answers 500 and the
\* handler of the route does not run
Thrown(id, t) ==
    [op |-> "rateLimiter", id |-> id, at |-> t, outcome |-> "500",
     headers |-> <<>>]

\* an exception thrown inside the callback of setInterval: the process exits
Exited == [op |-> "exit"]

(***************************************************************************)
(* rateLimiter(req, res, next), lines 70-143, as the effect it has on the  *)
(* store when the request of identifier id arrives at time t: the store it *)
(* leaves, whether it ran saveRateLimits, and what it answered.            *)
(***************************************************************************)
\* variant: lastRequest is updated before the limit is checked
Limit_touchOnDeny(store, id, t) ==
    IF id \notin DOMAIN store \/ WindowExpired(store[id], t)
    THEN [store |-> MapSet(store, id, NewRecord(t)),
          save |-> TRUE,
          res |-> PassedFirst(id, t)]
    ELSE IF LimitReached(store[id])
    THEN [store |-> MapSet(store, id, [store[id] EXCEPT !.lastRequest = t]),
          save |-> FALSE,
          res |-> Denied(id, store[id], t)]
    ELSE LET record == Incremented(store[id], t)
         IN [store |-> MapSet(store, id, record),
             save |-> SaveDue(record),
             res |-> Passed(id, record, t)]

\* variant: the limit is checked before the age of the window
Limit_limitFirst(store, id, t) ==
    IF id \in DOMAIN store /\ LimitReached(store[id])
    THEN [store |-> store,
          save |-> FALSE,
          res |-> Denied(id, store[id], t)]
    ELSE IF id \notin DOMAIN store \/ WindowExpired(store[id], t)
    THEN [store |-> MapSet(store, id, NewRecord(t)),
          save |-> TRUE,
          res |-> PassedFirst(id, t)]
    ELSE LET record == Incremented(store[id], t)
         IN [store |-> MapSet(store, id, record),
             save |-> SaveDue(record),
             res |-> Passed(id, record, t)]

Limit(store, id, t) ==
    IF id \notin DOMAIN store \/ WindowExpired(store[id], t)
    THEN \* lines 81-104: first request, or window expired
         [store |-> MapSet(store, id, NewRecord(t)),
          save |-> TRUE,
          res |-> PassedFirst(id, t)]
    ELSE IF LimitReached(store[id])
    THEN \* lines 107-119
         [store |-> store,
          save |-> FALSE,
          res |-> Denied(id, store[id], t)]
    ELSE \* lines 121-142
         LET record == Incremented(store[id], t)
         IN [store |-> MapSet(store, id, record),
             save |-> SaveDue(record),
             res |-> Passed(id, record, t)]

\* the call itself; write: what a write of the file does
rateLimiter(id, write) ==
    LET r == Limit(requestStore, id, now)
        saved == saveRateLimits(r.store, rateLimitFile, write)
        \* the request is let in with no window of id running at time now
        opened == /\ r.res.outcome = "next"
                  /\ \/ id \notin DOMAIN requestStore
                     \/ now - requestStore[id].firstRequest > WINDOW_MS
    IN /\ requestStore' = r.store
       /\ rateLimitFile' = IF r.save THEN saved.file ELSE rateLimitFile
       /\ saves' = IF r.save THEN 1 ELSE 0
       /\ res' = IF r.save /\ saved.thrown THEN Thrown(id, now) ELSE r.res
       /\ found' = IF id \in DOMAIN requestStore
                   THEN <<requestStore[id]>> ELSE <<>>
       /\ admitted' = [admitted EXCEPT ![id] =
                         IF r.res.outcome # "next" THEN @
                         ELSE IF opened THEN 1
                         ELSE IF restarted[id] THEN 0 ELSE @ + 1]
       /\ windowStart' = [windowStart EXCEPT ![id] = IF opened THEN now ELSE @]
       /\ restarted' = [restarted EXCEPT ![id] = IF opened THEN FALSE ELSE @]
       /\ UNCHANGED <<now, ticks>>

(***************************************************************************)
(* getRateLimitStatus(req), lines 161-182.                                 *)
(***************************************************************************)
\* variant: a record exactly WINDOW_MS old counts as expired
RateLimitStatus_ge(id, store, t) ==
    IF id \notin DOMAIN store \/ t - store[id].firstRequest >= WINDOW_MS
    THEN [op |-> "getRateLimitStatus", id |-> id, at |-> t,
          remaining |-> MAX_REQUESTS, resetAt |-> <<>>, isLimited |-> FALSE]
    ELSE [op |-> "getRateLimitStatus", id |-> id, at |-> t,
          remaining |-> IF MAX_REQUESTS - store[id].count > 0
                        THEN MAX_REQUESTS - store[id].count ELSE 0,
          resetAt |-> <<store[id].firstRequest + WINDOW_MS>>,
          isLimited |-> store[id].count >= MAX_REQUESTS]

RateLimitStatus(id, store, t) ==
    IF id \notin DOMAIN store \/ WindowExpired(store[id], t)
    THEN [op |-> "getRateLimitStatus", id |-> id, at |-> t,
          remaining |-> MAX_REQUESTS, resetAt |-> <<>>, isLimited |-> FALSE]
    ELSE [op |-> "getRateLimitStatus", id |-> id, at |-> t,
          remaining |-> IF MAX_REQUESTS - store[id].count > 0
                        THEN MAX_REQUESTS - store[id].count ELSE 0,
          resetAt |-> <<store[id].firstRequest + WINDOW_MS>>,
          isLimited |-> store[id].count >= MAX_REQUESTS]

getRateLimitStatus(id) ==
    /\ res' = RateLimitStatus(id, requestStore, now)
    /\ saves' = 0
    /\ found' = <<>>
    /\ UNCHANGED <<requestStore, rateLimitFile, now, ticks,
                   admitted, windowStart, restarted, sent>>

(***************************************************************************)
(* The hourly sweep, lines 46-61.                                          *)
(***************************************************************************)
\* variant: a record exactly WINDOW_MS old is swept
ExpiredKeys_ge(store, t) ==
    {k \in DOMAIN store : t - store[k].firstRequest >= WINDOW_MS}

\* lines 50-55: the keys the sweep deletes
ExpiredKeys(store, t) == {k \in DOMAIN store : WindowExpired(store[k], t)}

sweep(write) ==
    LET cleaned == ExpiredKeys(requestStore, now)
        store == MapDelete(requestStore, cleaned)
        saved == saveRateLimits(store, rateLimitFile, write)
    IN /\ requestStore' = store
       /\ IF Cardinality(cleaned) > 0
          THEN /\ rateLimitFile' = saved.file
               /\ saves' = 1
               /\ res' = IF saved.thrown THEN Exited ELSE NoResponse
          ELSE /\ rateLimitFile' = rateLimitFile
               /\ saves' = 0
               /\ res' = NoResponse
       /\ found' = <<>>
       /\ UNCHANGED <<now, ticks, admitted, windowStart, restarted, sent>>

(***************************************************************************)
(* The environment: the clock, and a restart of the process (module load:  *)
(* requestStore = new Map(), then loadRateLimits(), line 64).              *)
(***************************************************************************)
Tick(d) ==
    /\ ticks < MaxTicks
    /\ now' = now + d
    /\ ticks' = ticks + 1
    /\ res' = NoResponse
    /\ saves' = 0
    /\ found' = <<>>
    /\ UNCHANGED <<requestStore, rateLimitFile, admitted, windowStart,
                   restarted, sent>>

Restart ==
    /\ requestStore' = loadRateLimits(rateLimitFile)
    /\ res' = NoResponse
    /\ saves' = 0
    /\ found' = <<>>
    /\ restarted' = [i \in Idents |-> TRUE]
    /\ admitted' = [i \in Idents |-> 0]
    /\ UNCHANGED <<rateLimitFile, now, ticks, windowStart, sent>>

\* a request of client id reaches the middleware (router.use(rateLimiter))
\* while a write of the file does what write says
RequestWriting(id, write) ==
    /\ id \in LightClients => sent[id] < MaxLight
    /\ rateLimiter(id, write)
    /\ sent' = [i \in LightClients |-> IF i = id THEN sent[i] + 1 ELSE sent[i]]

\* the same with a file that can be written
Request(id) == RequestWriting(id, "written")

(***************************************************************************)
(* services/aiService.js.  Strings are sequences of characters.            *)
(***************************************************************************)
IsSpace(c) == c \in {" ", "\t", "\n"}

UpperCase == <<"A", "B", "C", "D", "E", "F", "G", "H", "I", "J", "K", "L", "M",
               "N", "O", "P", "Q", "R", "S", "T", "U", "V", "W", "X", "Y", "Z">>
LowerCase == <<"a", "b", "c", "d", "e", "f", "g", "h", "i", "j", "k", "l", "m",
               "n", "o", "p", "q", "r", "s", "t", "u", "v", "w", "x", "y", "z">>

\* String.prototype.toLowerCase
toLowerCase(str) ==
    [i \in 1..Len(str) |->
        IF \E k \in 1..26 : UpperCase[k] = str[i]
        THEN LowerCase[CHOOSE k \in 1..26 : UpperCase[k] = str[i]]
        ELSE str[i]]

\* String.prototype.trim
RECURSIVE trimStart(_)
trimStart(str) ==
    IF str # <<>> /\ IsSpace(Head(str)) THEN trimStart(Tail(str)) ELSE str
RECURSIVE trimEnd(_)
trimEnd(str) ==
    IF str # <<>> /\ IsSpace(str[Len(str)])
    THEN trimEnd(SubSeq(str, 1, Len(str) - 1)) ELSE str
trim(str) == trimEnd(trimStart(str))

\* a.includes(b)
includes(a, b) ==
    \E i \in 0..(Len(a) - Len(b)) : SubSeq(a, i + 1, i + Len(b)) = b

\* str.split(/\s+/): the pieces between the runs of white space; a run at
\* the start or at the end leaves an empty piece there
RECURSIVE split(_)
split(str) ==
    LET spaces == {i \in 1..Len(str) : IsSpace(str[i])}
    IN IF spaces = {} THEN <<str>>
       ELSE LET first == CHOOSE i \in spaces : \A j \in spaces : i <= j
            IN <<SubSeq(str, 1, first - 1)>>
               \o split(trimStart(SubSeq(str, first, Len(str))))

InSeq(x, arr) == \E i \in 1..Len(arr) : arr[i] = x

\* lines 28-39 and 115: the two stop word lists
stopWordsNav == << <<"u","c","h","u","n">>, <<"b","i","l","a","n">>,
                   <<"d","a","n">>, <<"g","a">>, <<"n","i">>,
                   <<"n","i","n","g">>, <<"l","a","r">>, <<"c","h","i">> >>
stopWordsFAQ == stopWordsNav \o << <<"n","i","m","a">>,
                                   <<"q","a","n","d","a","y">> >>

\* .filter((word) => word.length > 2 && !stopWords.includes(word))
RECURSIVE contentWords(_, _)
contentWords(words, stopWords) ==
    IF words = <<>> THEN <<>>
    ELSE IF Len(Head(words)) > 2 /\ ~InSeq(Head(words), stopWords)
    THEN <<Head(words)>> \o contentWords(Tail(words), stopWords)
    ELSE contentWords(Tail(words), stopWords)

\* lines 40-42 and 116-118: the content words of the query
queryWordsOf(q, stopWords) == contentWords(split(q), stopWords)

\* variant: the substring test of the second rule is missing
keywordRule_noPhrase(q, queryWords, keyword) ==
    LET keywordLower == toLowerCase(keyword)
        keywordWords == split(keywordLower)
        fuzzy(kw) == \E j \in 1..Len(queryWords) :
                        includes(queryWords[j], kw) \/ includes(kw, queryWords[j])
        allWordsMatch == \A i \in 1..Len(keywordWords) : fuzzy(keywordWords[i])
    IN IF q = keywordLower THEN 1
       ELSE IF allWordsMatch /\ Len(keywordWords) > 1 THEN 3
       ELSE IF Len(keywordWords) = 1 /\ fuzzy(keywordWords[1]) THEN 4
       ELSE 0

\* lines 52-85 and 128-154: which of the four rules fires for a keyword,
\* 0 when none does; 1: the query is the keyword, 2: one contains the
\* other, 3: every word of a keyword of several words matches a word of the
\* query, 4: the keyword of one word matches a word of the query
keywordRule(q, queryWords, keyword) ==
    LET keywordLower == toLowerCase(keyword)
        keywordWords == split(keywordLower)
        fuzzy(kw) == \E j \in 1..Len(queryWords) :
                        includes(queryWords[j], kw) \/ includes(kw, queryWords[j])
        allWordsMatch == \A i \in 1..Len(keywordWords) : fuzzy(keywordWords[i])
    IN IF q = keywordLower THEN 1
       ELSE IF includes(q, keywordLower) \/ includes(keywordLower, q) THEN 2
       ELSE IF allWordsMatch /\ Len(keywordWords) > 1 THEN 3
       ELSE IF Len(keywordWords) = 1 /\ fuzzy(keywordWords[1]) THEN 4
       ELSE 0

\* lines 56, 61, 73, 82 (and 132, 137, 146, 152): what the rule adds to the
\* score of the item
ruleScore(rule, keyword) ==
    IF rule = 1 THEN 100
    ELSE IF rule = 2 THEN 50
    ELSE IF rule = 3 THEN 30 * Len(split(toLowerCase(keyword)))
    ELSE IF rule = 4 THEN 10
    ELSE 0

\* what one keyword adds to the score of its item
keywordScore(q, queryWords, keyword) ==
    ruleScore(keywordRule(q, queryWords, keyword), keyword)

\* the inner loop: score and matchedKeywords of one item
RECURSIVE scoreItem(_, _, _)
scoreItem(q, queryWords, keywords) ==
    IF keywords = <<>> THEN [score |-> 0, matchedKeywords |-> <<>>]
    ELSE LET rest == scoreItem(q, queryWords,
                               SubSeq(keywords, 1, Len(keywords) - 1))
             keyword == keywords[Len(keywords)]
             add == keywordScore(q, queryWords, keyword)
         IN [score |-> rest.score + add,
             matchedKeywords |-> IF add > 0
                                 THEN Append(rest.matchedKeywords, keyword)
                                 ELSE rest.matchedKeywords]

(***************************************************************************)
(* The data loaded at start (data/faq.json, data/siteMap.json, lines       *)
(* 14-15): a small FAQ list and a small site map.                          *)
(***************************************************************************)
faqs ==
    << [id |-> 1, question |-> "Narx?", category |-> "narx",
        keywords |-> << <<"n","a","r","x">> >>],
       [id |-> 2, question |-> "Narx qancha?", category |-> "narx",
        keywords |-> << <<"n","a","r","x"," ","q","a","n","c","h","a">> >>],
       [id |-> 3, question |-> "Ish vaqti?", category |-> "umumiy",
        keywords |-> << <<"i","s","h"," ","v","a","q","t","i">>,
                        <<"v","a","q","t">> >>] >>

siteMap ==
    << [url |-> <<"/","n","a","r","x">>, intent |-> "Narxlar",
        keywords |-> << <<"N","a","r","x","l","a","r">>,
                        <<"n","a","r","x">> >>],
       [url |-> <<"/","a","l","o","q","a">>, intent |-> "Aloqa",
        keywords |-> << <<"a","l","o","q","a">>,
                        <<"t","e","l","e","f","o","n">> >>] >>

NOT_FOUND == <<"N","O","T","_","F","O","U","N","D">>

(***************************************************************************)
(* matchFAQ(query), lines 24-107: <<>> is null.                            *)
(***************************************************************************)
\* variant: an item with the score of the best so far replaces it
RECURSIVE matchFAQLoop_lastWins(_, _, _, _)
matchFAQLoop_lastWins(list, q, queryWords, n) ==
    IF n = 0 THEN [bestMatch |-> <<>>, highestScore |-> 0]
    ELSE LET before == matchFAQLoop_lastWins(list, q, queryWords, n - 1)
             faq == list[n]
             s == scoreItem(q, queryWords, faq.keywords)
         IN IF s.score >= before.highestScore /\ s.score >= 10
            THEN [bestMatch |-> <<[id |-> faq.id, question |-> faq.question,
                                   category |-> faq.category,
                                   keywords |-> faq.keywords,
                                   matched |-> TRUE, score |-> s.score,
                                   matchedKeywords |-> s.matchedKeywords]>>,
                  highestScore |-> s.score]
            ELSE before

\* lines 44-98: the loop over the first n entries of the list faqData.faqs
RECURSIVE matchFAQLoop(_, _, _, _)
matchFAQLoop(list, q, queryWords, n) ==
    IF n = 0 THEN [bestMatch |-> <<>>, highestScore |-> 0]
    ELSE LET before == matchFAQLoop(list, q, queryWords, n - 1)
             faq == list[n]
             s == scoreItem(q, queryWords, faq.keywords)
         IN IF s.score > before.highestScore /\ s.score >= 10
            THEN [bestMatch |-> <<[id |-> faq.id, question |-> faq.question,
                                   category |-> faq.category,
                                   keywords |-> faq.keywords,
                                   matched |-> TRUE, score |-> s.score,
                                   matchedKeywords |-> s.matchedKeywords]>>,
                  highestScore |-> s.score]
            ELSE before

\* matchFAQ when faqData.faqs is list
matchFAQOver(list, query) ==
    LET q == trim(toLowerCase(query))
    IN matchFAQLoop(list, q, queryWordsOf(q, stopWordsFAQ), Len(list)).bestMatch

matchFAQ(query) == matchFAQOver(faqs, query)

(***************************************************************************)
(* keywordMatch(query), lines 112-178.                                     *)
(***************************************************************************)
\* lines 120-168: the loop over the first n items of the list siteMap
RECURSIVE keywordMatchLoop(_, _, _, _)
keywordMatchLoop(list, q, queryWords, n) ==
    IF n = 0 THEN [bestMatch |-> <<>>, highestScore |-> 0]
    ELSE LET before == keywordMatchLoop(list, q, queryWords, n - 1)
             item == list[n]
             s == scoreItem(q, queryWords, item.keywords)
         IN IF s.score > before.highestScore /\ s.score > 0
            THEN [bestMatch |-> <<[url |-> item.url, intent |-> item.intent,
                                   matched |-> TRUE, score |-> s.score,
                                   matchedKeywords |-> s.matchedKeywords]>>,
                  highestScore |-> s.score]
            ELSE before

\* keywordMatch when siteMap is list
keywordMatchOver(list, query) ==
    LET q == trim(toLowerCase(query))
        r == keywordMatchLoop(list, q, queryWordsOf(q, stopWordsNav), Len(list))
    IN IF r.bestMatch # <<>> /\ r.highestScore >= 10 THEN r.bestMatch ELSE <<>>

keywordMatch(query) == keywordMatchOver(siteMap, query)

(***************************************************************************)
(* aiMatch(query), lines 183-246.  reply is what the call of               *)
(* openai.chat.completions.create does: it resolves with a response whose  *)
(* first choice holds a text, it resolves with a response that has no such *)
(* text (no choices, content null), or it rejects.                         *)
(***************************************************************************)
AiTexts ==
    { siteMap[1].url,
      siteMap[2].url,
      siteMap[2].url \o <<"\n">>,
      <<" ">> \o siteMap[1].url,
      NOT_FOUND,
      <<"/","b","o","g","u","s">>,
      <<"A","l","o","q","a">>,
      <<>> }

AiReplies ==
    [kind : {"text"}, text : AiTexts]
        \cup {[kind |-> "malformed", text |-> <<>>],
              [kind |-> "rejected", text |-> <<>>]}

\* siteMap.find((item) => item.url === text)
findUrl(text) == {i \in 1..Len(siteMap) : siteMap[i].url = text}

\* variant: no try/catch around the call
aiMatch_noCatch(reply) ==
    IF reply.kind # "text" THEN [threw |-> TRUE]
    ELSE LET text == trim(reply.text)
         IN IF text = NOT_FOUND THEN [url |-> NOT_FOUND, matched |-> FALSE]
            ELSE IF findUrl(text) = {} THEN [url |-> NOT_FOUND, matched |-> FALSE]
            ELSE [url |-> text,
                  intent |-> siteMap[CHOOSE i \in findUrl(text) :
                                       \A j \in findUrl(text) : i <= j].intent,
                  matched |-> TRUE]

\* variant: the text is not looked up in siteMap
aiMatch_noLookup(reply) ==
    IF reply.kind # "text" THEN [url |-> NOT_FOUND, matched |-> FALSE]
    ELSE LET text == trim(reply.text)
         IN IF text = NOT_FOUND THEN [url |-> NOT_FOUND, matched |-> FALSE]
            ELSE [url |-> text, intent |-> "", matched |-> TRUE]

aiMatch(reply) ==
    IF reply.kind # "text"
    THEN \* lines 242-245: whatever is thrown in the try block is caught
         [url |-> NOT_FOUND, matched |-> FALSE]
    ELSE LET text == trim(reply.text)
         IN IF text = NOT_FOUND THEN [url |-> NOT_FOUND, matched |-> FALSE]
            ELSE IF findUrl(text) = {} THEN [url |-> NOT_FOUND, matched |-> FALSE]
            ELSE [url |-> text,
                  intent |-> siteMap[CHOOSE i \in findUrl(text) :
                                       \A j \in findUrl(text) : i <= j].intent,
                  matched |-> TRUE]

(***************************************************************************)
(* detectNavigation(query), lines 251-292.  It runs up to the await of     *)
(* line 278 in one go, and from there to its return in a second go.        *)
(***************************************************************************)
\* variant: the navigation keywords are tried before the FAQ
uptoAwait_navFirst(query) ==
    IF keywordMatch(query) # <<>>
    THEN [ran |-> <<"keywordMatch">>, awaits |-> FALSE,
          result |-> [type |-> "NAVIGATION", url |-> keywordMatch(query)[1].url,
                      intent |-> keywordMatch(query)[1].intent,
                      matched |-> TRUE, score |-> keywordMatch(query)[1].score,
                      matchedKeywords |-> keywordMatch(query)[1].matchedKeywords]]
    ELSE IF matchFAQ(query) # <<>>
    THEN [ran |-> <<"keywordMatch", "matchFAQ">>, awaits |-> FALSE,
          result |-> [type |-> "FAQ", matched |-> TRUE, faq |-> matchFAQ(query)[1]]]
    ELSE [ran |-> <<"keywordMatch", "matchFAQ", "aiMatch">>, awaits |-> TRUE,
          result |-> [type |-> "none"]]

\* lines 252-278: what ran, and the result unless the call now awaits aiMatch
uptoAwait(query) ==
    LET faqResult == matchFAQ(query)
    IN IF faqResult # <<>>
       THEN [ran |-> <<"matchFAQ">>, awaits |-> FALSE,
             result |-> [type |-> "FAQ", matched |-> TRUE, faq |-> faqResult[1]]]
       ELSE LET keywordResult == keywordMatch(query)
            IN IF keywordResult # <<>>
               THEN [ran |-> <<"matchFAQ", "keywordMatch">>, awaits |-> FALSE,
                     result |-> [type |-> "NAVIGATION",
                                 url |-> keywordResult[1].url,
                                 intent |-> keywordResult[1].intent,
                                 matched |-> TRUE,
                                 score |-> keywordResult[1].score,
                                 matchedKeywords |->
                                     keywordResult[1].matchedKeywords]]
               ELSE [ran |-> <<"matchFAQ", "keywordMatch", "aiMatch">>,
                     awaits |-> TRUE,
                     result |-> [type |-> "none"]]

\* lines 278-291: from the settled aiMatch promise to the return
afterAwait(aiResult) ==
    IF "threw" \in DOMAIN aiResult
    THEN [type |-> "exception"]   \* a rejected await throws in the caller
    ELSE IF aiResult.matched
    THEN [type |-> "NAVIGATION", url |-> aiResult.url,
          intent |-> aiResult.intent, matched |-> TRUE]
    ELSE [type |-> "NOT_FOUND", matched |-> FALSE]

\* the queries the callers pass
Queries ==
    { <<"n","a","r","x">>,
      <<"n","a","r","x"," ","q","a","n","c","h","a">>,
      <<"A","l","o","q","a"," ">>,
      <<"s","a","l","o","m">>,
      <<"i","s","h"," ","v","a","q","t","i","n","i"," ","a","y","t">>,
      <<" ">> }

Calls == 1..NumCalls

NoCall == [pc |-> "idle", query |-> <<>>, ran |-> <<>>,
           reply |-> [kind |-> "none", text |-> <<>>],
           result |-> [type |-> "none"]]

\* a caller calls detectNavigation(query)
DetectNavigation(c, query) ==
    /\ calls[c].pc = "idle"
    /\ LET r == uptoAwait(query)
       IN calls' = [calls EXCEPT ![c] =
                      [pc |-> IF r.awaits THEN "awaitAI" ELSE "done",
                       query |-> query, ran |-> r.ran,
                       reply |-> [kind |-> "none", text |-> <<>>],
                       result |-> r.result]]
    /\ UNCHANGED <<limiterVars, reqVars, routeVars, matchVars>>

\* the OpenAI call of a waiting detectNavigation settles
AiSettles(c, reply) ==
    /\ calls[c].pc = "awaitAI"
    /\ LET result == afterAwait(aiMatch(reply))
       IN calls' = [calls EXCEPT ![c] =
                      [@ EXCEPT !.pc = IF result.type = "exception"
                                       THEN "threw" ELSE "done",
                                !.reply = reply,
                                !.result = result]]
    /\ UNCHANGED <<limiterVars, reqVars, routeVars, matchVars>>

\* the caller has taken the result (or the exception)
Taken(c) ==
    /\ calls[c].pc \in {"done", "threw"}
    /\ calls' = [calls EXCEPT ![c] = NoCall]
    /\ UNCHANGED <<limiterVars, reqVars, routeVars, matchVars>>

(***************************************************************************)
(* Requests of one client in progress at the same time                     *)
(* (routes/assistant.js): a request is received, the middleware of line 13 *)
(* runs for it, and if it calls next() the route handler awaits the AI and *)
(* ends with getRateLimitStatus (lines 58, 140, 208).                      *)
(***************************************************************************)
Requests == 1..NumRequests

\* saw (history): <<w>> when the request was received while the window
\* opened at w was one request short of the quota, <<>> otherwise;
\* ticket (history): <<w>> when the middleware let the request in, counting
\* it in the window opened at w
NoRequest == [pc |-> "none", saw |-> <<>>, ticket |-> <<>>]

Receive(r) ==
    /\ reqs[r].pc \in {"none", "denied"}
    /\ reqs' = [reqs EXCEPT ![r] =
                  [pc |-> "received",
                   saw |-> IF /\ "c1" \in DOMAIN requestStore
                              /\ now - requestStore["c1"].firstRequest <= WINDOW_MS
                              /\ requestStore["c1"].count = MAX_REQUESTS - 1
                           THEN <<requestStore["c1"].firstRequest>> ELSE <<>>,
                   ticket |-> <<>>]]
    /\ UNCHANGED <<limiterVars, navVars, routeVars, matchVars>>

Middleware(r) ==
    /\ reqs[r].pc = "received"
    /\ rateLimiter("c1", "written")
    /\ reqs' = [reqs EXCEPT ![r] =
                  IF res'.outcome = "next"
                  THEN [@ EXCEPT !.pc = "handling",
                                 !.ticket =
                                    <<requestStore'["c1"].firstRequest>>]
                  ELSE [@ EXCEPT !.pc = "denied"]]
    /\ UNCHANGED <<sent, navVars, routeVars, matchVars>>

Respond(r) ==
    /\ reqs[r].pc = "handling"
    /\ getRateLimitStatus("c1")
    /\ reqs' = [reqs EXCEPT ![r] = NoRequest]
    /\ UNCHANGED <<navVars, routeVars, matchVars>>

(***************************************************************************)
(* One HTTP request from its arrival to its response (index.js lines       *)
(* 15-21, routes/assistant.js).  The router is mounted at /api/assistant   *)
(* and its first layer is rateLimiter (line 13), so every route of the     *)
(* router is reached through it; GET /health of index.js is not.  A        *)
(* handler runs from one await of an OpenAI call to the next in one go.    *)
(***************************************************************************)
\* line 43 (and 197): the longest query accepted, in characters
MaxQueryLength == 500

RouterRoutes == {"POST /api/assistant/chat", "POST /api/assistant/navigate",
                 "POST /api/assistant/talk", "GET /api/assistant/health"}
AppRoutes == {"GET /health"}
\* the routes of the GET method: their requests carry no body
GetRoutes == {"GET /api/assistant/health", "GET /health"}

\* req.body.query: absent, a number, or a string
NoQuery == [type |-> "undefined", text |-> <<>>]
LongQuery == [i \in 1..(MaxQueryLength + 1) |-> "a"]
Bodies ==
    { NoQuery,
      [type |-> "number", text |-> <<>>],
      [type |-> "string", text |-> <<>>],
      [type |-> "string", text |-> <<" ">>],
      [type |-> "string", text |-> <<"n","a","r","x">>],
      [type |-> "string", text |-> <<"A","l","o","q","a"," ">>],
      [type |-> "string", text |-> <<"s","a","l","o","m">>],
      [type |-> "string", text |-> LongQuery] }

\* what openai.chat.completions.create does for a response generator: it
\* resolves with a text, or it fails (lines 347-352 and 381-384 of
\* aiService.js catch that and return a fixed message)
GeneratorReplies == {"text", "rejected"}

\* ran (history): the functions called for the request, in call order;
\* detection: what detectNavigation returned; query: the text the handler
\* passes on
NoExchange == [pc |-> "none", route |-> "", query |-> NoQuery, ran |-> <<>>,
               status |-> 0, headers |-> <<>>,
               detection |-> [type |-> "none"], body |-> [type |-> "none"]]

\* lines 29, 129 and 183: !query || typeof query !== "string"
QueryRequired(query) == query.type # "string" \/ Len(query.text) = 0

\* res.status(400).json({ error })
BadRequest(x, error) ==
    [x EXCEPT !.pc = "sent", !.status = 400,
              !.body = [type |-> "error", error |-> error]]

\* lines 36-47 and 190-201: the checks on the trimmed query; <<>> when the
\* query passes
LengthError(trimmedQuery) ==
    IF Len(trimmedQuery) = 0 THEN <<"Bo'sh xabar yuborib bo'lmaydi">>
    ELSE IF Len(trimmedQuery) > MaxQueryLength
    THEN <<"Xabar juda uzun (maksimal 500 belgi)">>
    ELSE <<>>

\* lines 58, 140 and 208 with the rateLimit object of the response
RateLimitOf(id, store, t) ==
    [remaining |-> RateLimitStatus(id, store, t).remaining,
     resetAt |-> RateLimitStatus(id, store, t).resetAt]

\* lines 304-308 and 78-83
IsNavigating(detection) ==
    /\ detection.type = "NAVIGATION"
    /\ detection.matched
    /\ detection.url # NOT_FOUND

\* lines 58-106: the response of /chat
chatResponse(x, message, rateLimit) ==
    [x EXCEPT !.pc = "sent", !.status = 200,
              !.ran = @ \o <<"getRateLimitStatus">>,
              !.body =
                 IF x.detection.type = "FAQ"
                 THEN [type |-> "FAQ", message |-> message,
                       faq |-> x.detection.faq.id, rateLimit |-> rateLimit]
                 ELSE IF IsNavigating(x.detection)
                 THEN [type |-> "NAVIGATION", message |-> message,
                       url |-> x.detection.url,
                       intent |-> x.detection.intent, rateLimit |-> rateLimit]
                 ELSE [type |-> "CHAT", message |-> message,
                       rateLimit |-> rateLimit]]

\* lines 140-161: the response of /navigate
navigateResponse(x, rateLimit) ==
    [x EXCEPT !.pc = "sent", !.status = 200,
              !.ran = @ \o <<"getRateLimitStatus">>,
              !.body =
                 IF x.detection.type # "NAVIGATION"
                    \/ x.detection.url = NOT_FOUND
                 THEN [type |-> "NOT_FOUND", rateLimit |-> rateLimit]
                 ELSE [type |-> "NAVIGATE", url |-> x.detection.url,
                       intent |-> x.detection.intent, rateLimit |-> rateLimit]]

\* lines 208-217: the response of /talk
talkResponse(x, message, rateLimit) ==
    [x EXCEPT !.pc = "sent", !.status = 200,
              !.ran = @ \o <<"getRateLimitStatus">>,
              !.body = [type |-> "CHAT", message |-> message,
                        rateLimit |-> rateLimit]]

\* line 55: generateChatResponse(trimmedQuery, detectionResult) returns the
\* answer of the FAQ at once (lines 299-301), else it awaits OpenAI
chatGenerate(y, id, store, t) ==
    IF y.detection.type = "FAQ"
    THEN chatResponse([y EXCEPT !.ran = @ \o <<"generateChatResponse">>],
                      "answer", RateLimitOf(id, store, t))
    ELSE [y EXCEPT !.ran = @ \o <<"generateChatResponse">>,
                   !.pc = "awaitReply"]

\* the checks a handler makes before anything else, <<>> when the query
\* passes: lines 29-47 of /chat and 183-201 of /talk, lines 129-133 of
\* /navigate
Rejection(x) ==
    IF QueryRequired(x.query) THEN <<"Query is required">>
    ELSE IF x.route = "POST /api/assistant/navigate" THEN <<>>
    ELSE LengthError(trim(x.query.text))

\* the text the handler passes on: trimmedQuery on /chat and /talk (lines 52
\* and 205), query as it came on /navigate (line 137)
QueryPassed(x) ==
    IF x.route = "POST /api/assistant/navigate" THEN x.query.text
    ELSE trim(x.query.text)

\* lines 52 and 137: detectNavigation(query) was called and d is where it
\* got to, its return or the await of aiMatch
detected(x, query, d) ==
    [x EXCEPT !.query = [type |-> "string", text |-> query],
              !.ran = @ \o <<"detectNavigation">> \o d.ran,
              !.pc = IF d.awaits THEN "awaitDetect" ELSE "detected",
              !.detection = d.result]

\* lines 55-106 and 140-161: the handler once detectNavigation has returned
afterDetect(y, id, store, t) ==
    IF y.route = "POST /api/assistant/navigate"
    THEN navigateResponse(y, RateLimitOf(id, store, t))
    ELSE chatGenerate(y, id, store, t)

\* line 205: /talk calls generateGeneralChat, which awaits OpenAI
talkStart(x, query) ==
    [x EXCEPT !.query = [type |-> "string", text |-> query],
              !.ran = @ \o <<"generateGeneralChat">>,
              !.pc = "awaitReply"]

\* lines 232-238 of assistant.js and 19-21 of index.js
healthResponse(x) ==
    [x EXCEPT !.pc = "sent", !.status = 200, !.body = [type |-> "health"]]

\* the handler of the route, from its start to its first await of OpenAI
\* or to its response
handlerFrom(x, y, id, store, t) ==
    IF x.route = "GET /api/assistant/health" THEN healthResponse(x)
    ELSE IF Rejection(x) # <<>> THEN BadRequest(x, Rejection(x)[1])
    ELSE IF x.route = "POST /api/assistant/talk"
    THEN talkStart(x, QueryPassed(x))
    ELSE IF y.pc = "awaitDetect" THEN y
    ELSE afterDetect(y, id, store, t)

handler(x, id, store, t) ==
    handlerFrom(x, detected(x, QueryPassed(x), uptoAwait(QueryPassed(x))),
                id, store, t)

\* variant: the handler runs whatever the middleware answered
throughRouter_always(x, limited, id, store, t) ==
    LET y == [x EXCEPT !.ran = <<"rateLimiter">>, !.headers = limited.headers]
        z == handler(y, id, store, t)
    IN IF limited.outcome = "next" THEN z
       ELSE [z EXCEPT !.pc = "sent", !.status = 429]

\* lines 13 and 107-119: the router calls rateLimiter first; the handler of
\* the route runs when rateLimiter calls next(), and not when it answers 429
throughRouter(x, limited, id, store, t) ==
    LET y == [x EXCEPT !.ran = <<"rateLimiter">>, !.headers = limited.headers]
    IN IF limited.outcome = "next" THEN handler(y, id, store, t)
       ELSE [y EXCEPT !.pc = "sent", !.status = 429,
                      !.body = [type |-> "error", error |-> limited.error]]

\* a request of client "c1" arrives: express.json() (index.js line 15) has
\* read its body, the routing is about to start
Arrive(route, query) ==
    /\ exchange.pc \in {"none", "sent"}
    /\ route \in GetRoutes => query = NoQuery
    /\ exchange' = [NoExchange EXCEPT !.pc = "arrived", !.route = route,
                                      !.query = query]
    /\ UNCHANGED <<limiterVars, navVars, reqVars, matchVars>>

\* the request is routed and runs to its first await of OpenAI or to its
\* response
Serve ==
    /\ exchange.pc = "arrived"
    /\ IF exchange.route \in RouterRoutes
       THEN /\ rateLimiter("c1", "written")
            /\ exchange' = throughRouter(exchange, res', "c1",
                                         requestStore', now)
            /\ UNCHANGED sent
       ELSE /\ exchange' = healthResponse(exchange)
            /\ UNCHANGED limiterVars
    /\ UNCHANGED <<navVars, reqVars, matchVars>>

\* the OpenAI call of aiMatch settles: detectNavigation returns (lines
\* 278-291), /navigate responds, /chat goes on to generateChatResponse
ClassifierSettles(reply) ==
    /\ exchange.pc = "awaitDetect"
    /\ LET detection == afterAwait(aiMatch(reply))
       IN IF exchange.route = "POST /api/assistant/navigate"
          THEN /\ getRateLimitStatus("c1")
               /\ exchange' = navigateResponse(
                                 [exchange EXCEPT !.detection = detection],
                                 [remaining |-> res'.remaining,
                                  resetAt |-> res'.resetAt])
          ELSE /\ exchange' = chatGenerate(
                                 [exchange EXCEPT !.detection = detection],
                                 "c1", requestStore, now)
               /\ UNCHANGED limiterVars
    /\ UNCHANGED <<navVars, reqVars, matchVars>>

\* the OpenAI call of a response generator settles: the handler calls
\* getRateLimitStatus and responds
GeneratorSettles(reply) ==
    /\ exchange.pc = "awaitReply"
    /\ getRateLimitStatus("c1")
    /\ LET message == IF reply = "text" THEN "generated" ELSE "fallback"
           rateLimit == [remaining |-> res'.remaining,
                         resetAt |-> res'.resetAt]
       IN exchange' = IF exchange.route = "POST /api/assistant/chat"
                      THEN chatResponse(exchange, message, rateLimit)
                      ELSE talkResponse(exchange, message, rateLimit)
    /\ UNCHANGED <<navVars, reqVars, matchVars>>

(***************************************************************************)
(* matchFAQ, keywordMatch and the scoring of one keyword as functions of   *)
(* their inputs: the list loaded at start (lines 14-15) and the query.     *)
(* An evaluation is asked, then answered.                                  *)
(***************************************************************************)
\* the FAQ entries and the site map items the lists are made of
FaqPool ==
    { faqs[1], faqs[2], faqs[3],
      [id |-> 4, question |-> "Qancha?", category |-> "narx",
       keywords |-> << <<"q","a","n","c","h","a">> >>] }

NavPool ==
    { siteMap[1], siteMap[2],
      [url |-> <<"/","t","a","r","i","f">>, intent |-> "Tariflar",
       keywords |-> << <<"n","a","r","x","l","a","r">>,
                       <<"N","a","r","x">> >>] }

\* the lists of at most n different items of a pool, in every order
RECURSIVE ListsOf(_, _)
ListsOf(pool, n) ==
    IF n = 0 THEN {<<>>}
    ELSE ListsOf(pool, n - 1)
         \cup {Append(l, x) : l \in {k \in ListsOf(pool, n - 1) : Len(k) = n - 1},
                              x \in pool}

Distinct(l) == \A i, j \in 1..Len(l) : i # j => l[i] # l[j]

FaqLists == {l \in ListsOf(FaqPool, MaxItems) : Distinct(l)}
NavLists == {l \in ListsOf(NavPool, MaxItems) : Distinct(l)}

\* the queries given to the matchers
MatchQueries ==
    Queries \cup { <<"q","a","n","c","h","a"," ","n","a","r","x">>,
                   <<"n","a","r"," ","q","a","n","c","h","a">>,
                   <<"T","e","l"," ","b","o","r">> }

\* the keywords scored one by one
PoolKeywords ==
    { <<"n","a","r","x">>,
      <<"n","a","r","x"," ","q","a","n","c","h","a">>,
      <<"i","s","h"," ","v","a","q","t","i">>,
      <<"t","e","l","e","f","o","n">> }

NoProbe == [fn |-> "none", pc |-> "none", items |-> <<>>, query |-> <<>>,
            result |-> <<>>]

\* matchFAQ(query) is called with faqData.faqs = list
AskFAQ(list, query) ==
    /\ probe.pc = "none"
    /\ probe' = [fn |-> "matchFAQ", pc |-> "asked", items |-> list,
                 query |-> query, result |-> <<>>]
    /\ UNCHANGED <<limiterVars, navVars, reqVars, routeVars>>

\* keywordMatch(query) is called with siteMap = list
AskNav(list, query) ==
    /\ probe.pc = "none"
    /\ probe' = [fn |-> "keywordMatch", pc |-> "asked", items |-> list,
                 query |-> query, result |-> <<>>]
    /\ UNCHANGED <<limiterVars, navVars, reqVars, routeVars>>

\* two keywords are each scored against a query, as the inner loop of
\* matchFAQ does (lines 51-86)
AskScores(query1, keyword1, query2, keyword2) ==
    /\ probe.pc = "none"
    /\ probe' = [fn |-> "keywordScore", pc |-> "asked",
                 items |-> <<keyword1, keyword2>>,
                 query |-> <<query1, query2>>, result |-> <<>>]
    /\ UNCHANGED <<limiterVars, navVars, reqVars, routeVars>>

\* lines 25-42 and 51-86: the rule that fires for the keyword and what it
\* adds to the score
Scored(query, keyword) ==
    LET q == trim(toLowerCase(query))
        queryWords == queryWordsOf(q, stopWordsFAQ)
    IN [rule |-> keywordRule(q, queryWords, keyword),
        words |-> Len(split(toLowerCase(keyword))),
        score |-> keywordScore(q, queryWords, keyword)]

\* the function returns
Answer ==
    /\ probe.pc = "asked"
    /\ probe' = [probe EXCEPT
                   !.pc = "answered",
                   !.result =
                      IF probe.fn = "matchFAQ"
                      THEN matchFAQOver(probe.items, probe.query)
                      ELSE IF probe.fn = "keywordMatch"
                      THEN keywordMatchOver(probe.items, probe.query)
                      ELSE <<Scored(probe.query[1], probe.items[1]),
                             Scored(probe.query[2], probe.items[2])>>]
    /\ UNCHANGED <<limiterVars, navVars, reqVars, routeVars>>

(***************************************************************************)
(* Init: a first start, no file yet, loadRateLimits finds nothing.         *)
(***************************************************************************)
Init ==
    /\ rateLimitFile = [exists |-> FALSE, data |-> EmptyMap]
    /\ requestStore = loadRateLimits([exists |-> FALSE, data |-> EmptyMap])
    /\ now = 0
    /\ ticks = 0
    /\ res = NoResponse
    /\ saves = 0
    /\ admitted = [i \in Idents |-> 0]
    /\ windowStart = [i \in Idents |-> 0]
    /\ restarted = [i \in Idents |-> FALSE]
    /\ sent = [i \in LightClients |-> 0]
    /\ found = <<>>
    /\ calls = [c \in Calls |-> NoCall]
    /\ reqs = [r \in Requests |-> NoRequest]
    /\ exchange = NoExchange
    /\ probe = NoProbe

(***************************************************************************)
(* Spec: the rate limiter, its file, the clock and restarts.               *)
(***************************************************************************)
Next ==
    \/ \E id \in Idents : Request(id) /\ UNCHANGED <<navVars, reqVars, routeVars, matchVars>>
    \/ \E id \in Idents : getRateLimitStatus(id) /\ UNCHANGED <<navVars, reqVars, routeVars, matchVars>>
    \/ sweep("written") /\ UNCHANGED <<navVars, reqVars, routeVars, matchVars>>
    \/ \E d \in ClockSteps : Tick(d) /\ UNCHANGED <<navVars, reqVars, routeVars, matchVars>>
    \/ Restart /\ UNCHANGED <<navVars, reqVars, routeVars, matchVars>>

Spec == Init /\ [][Next]_vars

(***************************************************************************)
(* SpecNav: concurrent detectNavigation calls.                             *)
(***************************************************************************)
NextNav ==
    \/ \E c \in Calls, query \in Queries : DetectNavigation(c, query)
    \/ \E c \in Calls, reply \in AiReplies : AiSettles(c, reply)
    \/ \E c \in Calls : Taken(c)

SpecNav == Init /\ [][NextNav]_vars

(***************************************************************************)
(* SpecConc: requests of the same client in progress at the same time.     *)
(***************************************************************************)
NextConc ==
    \/ \E r \in Requests : Receive(r)
    \/ \E r \in Requests : Middleware(r)
    \/ \E r \in Requests : Respond(r)
    \/ sweep("written") /\ UNCHANGED <<navVars, reqVars, routeVars, matchVars>>
    \/ \E d \in ClockSteps : Tick(d) /\ UNCHANGED <<navVars, reqVars, routeVars, matchVars>>

SpecConc == Init /\ [][NextConc]_vars

(***************************************************************************)
(* SpecRoute: the requests of one client, one after the other, each from   *)
(* the router to its response.                                             *)
(***************************************************************************)
NextRoute ==
    \/ \E route \in RouterRoutes \cup AppRoutes, query \in Bodies :
          Arrive(route, query)
    \/ Serve
    \/ \E reply \in AiReplies : ClassifierSettles(reply)
    \/ \E reply \in GeneratorReplies : GeneratorSettles(reply)
    \/ \E d \in ClockSteps :
          Tick(d) /\ UNCHANGED <<navVars, reqVars, routeVars, matchVars>>

SpecRoute == Init /\ [][NextRoute]_vars

(***************************************************************************)
(* SpecFail: the requests of one client, the sweep and restarts with a      *)
(* file that can fail to be written and can be left unreadable.            *)
(***************************************************************************)
NextFail ==
    \/ \E write \in WriteOutcomes :
          RequestWriting("c1", write)
          /\ UNCHANGED <<navVars, reqVars, routeVars, matchVars>>
    \/ \E write \in WriteOutcomes :
          sweep(write) /\ UNCHANGED <<navVars, reqVars, routeVars, matchVars>>
    \/ \E d \in ClockSteps :
          Tick(d) /\ UNCHANGED <<navVars, reqVars, routeVars, matchVars>>
    \/ Restart /\ UNCHANGED <<navVars, reqVars, routeVars, matchVars>>

SpecFail == Init /\ [][NextFail]_vars

(***************************************************************************)
(* SpecMatch: the matchers applied to lists and queries.                   *)
(***************************************************************************)
NextMatch ==
    \/ \E list \in FaqLists, query \in MatchQueries : AskFAQ(list, query)
    \/ \E list \in NavLists, query \in MatchQueries : AskNav(list, query)
    \/ \E query1, query2 \in MatchQueries, keyword1, keyword2 \in PoolKeywords :
          AskScores(query1, keyword1, query2, keyword2)
    \/ Answer

SpecMatch == Init /\ [][NextMatch]_vars

(***************************************************************************)
(* Properties of the rate limiter.                                         *)
(***************************************************************************)
\* the last callback was a rateLimiter call, answered with outcome o
Answered(o) == res.op = "rateLimiter" /\ res.outcome = o

\* C1: with no restart since the window of an identifier opened, a window
\* never admits more than MAX_REQUESTS requests, and once MAX_REQUESTS have
\* been admitted, a request of that identifier made no later than WINDOW_MS
\* after the window opened is answered 429 with remaining 0 and admits nothing.
C1_QuotaEnforced ==
    /\ [](\A id \in Idents : ~restarted[id] => admitted[id] <= MAX_REQUESTS)
    /\ [][\A id \in Idents :
            ( /\ Request(id)
              /\ ~restarted[id]
              /\ admitted[id] >= MAX_REQUESTS
              /\ now - windowStart[id] <= WINDOW_MS )
            => ( /\ res'.outcome = "429"
                 /\ res'.remaining = 0
                 /\ admitted'[id] = admitted[id] )]_vars

\* the 31st request of a window, made exactly WINDOW_MS after it opened, denied
C1_Witness ==
    /\ Answered("429")
    /\ ~restarted[res.id]
    /\ admitted[res.id] = MAX_REQUESTS
    /\ res.at - windowStart[res.id] = WINDOW_MS

\* C2: a rateLimiter call that finds a record whose firstRequest lies more
\* than WINDOW_MS in the past is let through and leaves the record
\* count = 1, firstRequest = lastRequest = the time of the call, whatever
\* the count of the record it found.
C2_ExpiredWindowResets ==
    ( /\ res.op = "rateLimiter"
      /\ found # <<>>
      /\ res.at - found[1].firstRequest > WINDOW_MS )
    => ( /\ res.outcome = "next"
         /\ res.id \in DOMAIN requestStore
         /\ requestStore[res.id] =
              [count |-> 1, firstRequest |-> res.at, lastRequest |-> res.at] )

\* a client that was at its quota is let through after the window
C2_Witness ==
    /\ Answered("next")
    /\ found # <<>>
    /\ found[1].count = MAX_REQUESTS
    /\ res.at - found[1].firstRequest = WINDOW_MS + 1
    /\ requestStore[res.id].count = 1

\* C8: a rateLimiter call that finds a record within its window whose count
\* is at least MAX_REQUESTS changes neither the store nor the file, and does
\* not run saveRateLimits.
C8_DenialChangesNothing ==
    [][\A id \in Idents :
         ( /\ Request(id)
           /\ id \in DOMAIN requestStore
           /\ now - requestStore[id].firstRequest <= WINDOW_MS
           /\ requestStore[id].count >= MAX_REQUESTS )
         => ( /\ res'.outcome = "429"
              /\ requestStore' = requestStore
              /\ rateLimitFile' = rateLimitFile
              /\ saves' = 0 )]_vars

\* a denial later than the last allowed request, with another client's record
\* in the store
C8_Witness ==
    /\ Answered("429")
    /\ res.at > requestStore[res.id].lastRequest
    /\ DOMAIN requestStore = Idents
    /\ saves = 0

\* C9: every denial reports remaining 0 and resetAt = WINDOW_MS after the
\* time of the request that opened the current window of the identifier.
C9_DenialResetAt ==
    Answered("429") =>
        /\ res.remaining = 0
        /\ res.resetAt = windowStart[res.id] + WINDOW_MS

\* a denial in a window that did not open at time 0, some time after the quota
\* was reached
C9_Witness ==
    /\ Answered("429")
    /\ windowStart[res.id] > 0
    /\ res.at > requestStore[res.id].lastRequest
    /\ res.resetAt = windowStart[res.id] + WINDOW_MS

\* C10: getRateLimitStatus changes neither the store nor the file and runs
\* no save; without a record, or with one whose window has expired, it
\* reports remaining = MAX_REQUESTS and no resetAt; otherwise remaining =
\* max(0, MAX_REQUESTS - count) and resetAt = firstRequest + WINDOW_MS.
C10_StatusReadOnly ==
    [][\A id \in Idents :
         getRateLimitStatus(id) =>
            /\ requestStore' = requestStore
            /\ rateLimitFile' = rateLimitFile
            /\ saves' = 0
            /\ IF \/ id \notin DOMAIN requestStore
                  \/ now - requestStore[id].firstRequest > WINDOW_MS
               THEN /\ res'.remaining = MAX_REQUESTS
                    /\ res'.resetAt = <<>>
               ELSE /\ res'.remaining =
                         IF requestStore[id].count >= MAX_REQUESTS THEN 0
                         ELSE MAX_REQUESTS - requestStore[id].count
                    /\ res'.resetAt =
                         <<requestStore[id].firstRequest + WINDOW_MS>>]_vars

\* the status of a record exactly WINDOW_MS old (still in its window), and of
\* one that is older: both are reached
C10_Witness ==
    /\ res.op = "getRateLimitStatus"
    /\ res.id \in DOMAIN requestStore
    /\ res.at - requestStore[res.id].firstRequest = WINDOW_MS
    /\ res.remaining = MAX_REQUESTS - requestStore[res.id].count
    /\ res.resetAt = <<res.at>>

(***************************************************************************)
(* A restart: the store before it, and the store loadRateLimits rebuilds   *)
(* from the file as last written.                                          *)
(***************************************************************************)
\* what a request of id arriving at time t is answered from a given store
OutcomeFrom(store, id, t) == Limit(store, id, t).res.outcome
\* the remaining quota the client is told once that request has been handled
RemainingFrom(store, id, t) ==
    RateLimitStatus(id, Limit(store, id, t).store, t).remaining

\* C7 as stated: in every reachable state a request arriving right after a
\* restart gets the same outcome and the same remaining quota as it would
\* have got from the store before the restart.
C7_RestartSameDecision ==
    \A id \in Idents :
        /\ OutcomeFrom(loadRateLimits(rateLimitFile), id, now)
             = OutcomeFrom(requestStore, id, now)
        /\ RemainingFrom(loadRateLimits(rateLimitFile), id, now)
             = RemainingFrom(requestStore, id, now)

\* C7 amended: when every write of the file succeeded, a request arriving
\* right after a restart gets the same outcome as from the store before the
\* restart, and a remaining quota that is not lower and at most 4 higher.
C7_RestartWithinSlack ==
    \A id \in Idents :
        /\ OutcomeFrom(loadRateLimits(rateLimitFile), id, now)
             = OutcomeFrom(requestStore, id, now)
        /\ RemainingFrom(loadRateLimits(rateLimitFile), id, now)
             >= RemainingFrom(requestStore, id, now)
        /\ RemainingFrom(loadRateLimits(rateLimitFile), id, now)
             <= RemainingFrom(requestStore, id, now) + 4

\* the file is four requests behind the store, in a window that has already
\* seen a restart
C7_Witness ==
    /\ restarted["c1"]
    /\ "c1" \in DOMAIN requestStore
    /\ requestStore["c1"].count = 29
    /\ rateLimitFile.data["c1"].count = 25
    /\ now - requestStore["c1"].firstRequest <= WINDOW_MS

(***************************************************************************)
(* Properties of detectNavigation.                                         *)
(***************************************************************************)
Urls == {siteMap[i].url : i \in 1..Len(siteMap)}

\* C4: the cascade has a fixed order and stops at the first stage that
\* matches: a query matchFAQ matches is decided FAQ with nothing else run,
\* also when keywordMatch would match it; a query only keywordMatch matches
\* is decided NAVIGATION without aiMatch; aiMatch runs only when both miss.
C4_CascadeShortCircuits ==
    \A c \in Calls :
        calls[c].pc # "idle" =>
            LET q == calls[c].query
            IN /\ matchFAQ(q) # <<>> =>
                    /\ calls[c].pc = "done"
                    /\ calls[c].result.type = "FAQ"
                    /\ calls[c].ran = <<"matchFAQ">>
               /\ (matchFAQ(q) = <<>> /\ keywordMatch(q) # <<>>) =>
                    /\ calls[c].pc = "done"
                    /\ calls[c].result.type = "NAVIGATION"
                    /\ calls[c].ran = <<"matchFAQ", "keywordMatch">>
               /\ (\E i \in 1..Len(calls[c].ran) : calls[c].ran[i] = "aiMatch") =>
                    /\ matchFAQ(q) = <<>>
                    /\ keywordMatch(q) = <<>>
                    /\ calls[c].ran = <<"matchFAQ", "keywordMatch", "aiMatch">>

\* a query both matchers match, decided FAQ, beside a call that went to the AI
C4_Witness ==
    \E c, d \in Calls :
        /\ calls[c].pc = "done"
        /\ matchFAQ(calls[c].query) # <<>>
        /\ keywordMatch(calls[c].query) # <<>>
        /\ calls[c].result.type = "FAQ"
        /\ calls[d].pc = "awaitAI"

\* C5 as stated: a NAVIGATION decision carries a url of siteMap, and a text
\* returned by the classifier that is not exactly one of these urls is
\* decided NOT_FOUND.
C5_OnlyExactUrls ==
    \A c \in Calls :
        calls[c].pc = "done" =>
            /\ calls[c].result.type = "NAVIGATION" =>
                    calls[c].result.url \in Urls
            /\ (calls[c].reply.kind = "text" /\ calls[c].reply.text \notin Urls)
                    => calls[c].result.type = "NOT_FOUND"

\* C5 amended: a NAVIGATION decision carries a url of siteMap; a returned
\* text that, with the white space around it removed, is not exactly one of
\* these urls is decided NOT_FOUND, and so is the text NOT_FOUND.
C5_OnlyKnownUrls ==
    \A c \in Calls :
        calls[c].pc = "done" =>
            /\ calls[c].result.type = "NAVIGATION" =>
                    calls[c].result.url \in Urls
            /\ ( /\ calls[c].reply.kind = "text"
                 /\ \A u \in Urls :
                       trimEnd(trimStart(calls[c].reply.text)) # u )
                    => calls[c].result.type = "NOT_FOUND"

\* the classifier named a url that siteMap does not hold
C5_Witness ==
    \E c \in Calls :
        /\ calls[c].pc = "done"
        /\ calls[c].reply.kind = "text"
        /\ calls[c].reply.text = <<"/","b","o","g","u","s">>
        /\ calls[c].result.type = "NOT_FOUND"

\* C6: a call whose AI call has settled has returned one decision among
\* FAQ, NAVIGATION and NOT_FOUND; when the AI call rejected or resolved with
\* a malformed response the decision is NOT_FOUND; no call ends by throwing.
C6_AlwaysADecision ==
    \A c \in Calls :
        /\ calls[c].pc \in {"idle", "awaitAI", "done"}
        /\ calls[c].pc = "done" =>
              calls[c].result.type \in {"FAQ", "NAVIGATION", "NOT_FOUND"}
        /\ calls[c].reply.kind # "none" => calls[c].pc = "done"
        /\ calls[c].reply.kind \in {"rejected", "malformed"} =>
              calls[c].result.type = "NOT_FOUND"

\* one call whose AI call rejected and one whose response was malformed
C6_Witness ==
    \E c, d \in Calls :
        /\ calls[c].pc = "done" /\ calls[c].reply.kind = "rejected"
        /\ calls[c].result.type = "NOT_FOUND"
        /\ calls[d].pc = "done" /\ calls[d].reply.kind = "malformed"
        /\ calls[d].result.type = "NOT_FOUND"

(***************************************************************************)
(* Properties of requests in progress at the same time.                    *)
(***************************************************************************)
\* C3: however the requests of one client interleave, the count of its
\* record equals the number of requests let in during the window (no
\* increment is lost) and never exceeds MAX_REQUESTS, and of the requests
\* received while the window was one short of the quota at most one has
\* been let in in that window.
C3_AtomicCheckAndIncrement ==
    /\ "c1" \in DOMAIN requestStore =>
          /\ requestStore["c1"].count <= MAX_REQUESTS
          /\ requestStore["c1"].firstRequest = windowStart["c1"]
          /\ requestStore["c1"].count = admitted["c1"]
    /\ \A r, s \in Requests :
          ( /\ reqs[r].pc = "handling" /\ reqs[s].pc = "handling"
            /\ reqs[r].saw # <<>> /\ reqs[r].ticket = reqs[r].saw
            /\ reqs[s].saw = reqs[r].saw /\ reqs[s].ticket = reqs[r].saw )
          => r = s

\* two requests were received with one request left in the window: one got
\* the last place and is being handled, the other was denied
C3_Witness ==
    \E r, s \in Requests :
        /\ reqs[r].pc = "handling" /\ reqs[s].pc = "denied"
        /\ reqs[r].saw # <<>> /\ reqs[s].saw = reqs[r].saw
        /\ reqs[r].ticket = reqs[r].saw
        /\ requestStore["c1"].count = MAX_REQUESTS
        /\ Answered("429")

(***************************************************************************)
(* Properties of the routes.                                               *)
(***************************************************************************)
\* the functions called for the request being served
Ran == {exchange.ran[i] : i \in 1..Len(exchange.ran)}

\* the classification and the response generators
Classification == {"detectNavigation", "matchFAQ", "keywordMatch", "aiMatch",
                   "generateChatResponse", "generateGeneralChat"}

\* C11: on /chat, /navigate and /talk detectNavigation, the AI classifier
\* and the response generators are called for a request only after
\* rateLimiter has recorded it and called next(); a request answered 429
\* has none of them called, before or after the answer
C11_DeniedNeverClassified ==
    exchange.route \in {"POST /api/assistant/chat",
                        "POST /api/assistant/navigate",
                        "POST /api/assistant/talk"}
    => /\ Ran \cap Classification # {}
          => /\ exchange.ran[1] = "rateLimiter"
             /\ exchange.status # 429
             /\ "c1" \in DOMAIN requestStore
             /\ requestStore["c1"].count >= 1
       /\ exchange.status = 429 => Ran = {"rateLimiter"}

\* a request of /chat with a query the FAQ answers was answered 429
C11_Witness ==
    /\ exchange.route = "POST /api/assistant/chat"
    /\ exchange.query.text = <<"n","a","r","x">>
    /\ exchange.status = 429
    /\ exchange.ran = <<"rateLimiter">>

\* C12: serving a health request (GET /health, GET /api/assistant/health)
\* never creates or increments a record of the store and never answers 429
C12_HealthNotLimited ==
    [][Serve /\ exchange.route \in GetRoutes
       => requestStore' = requestStore /\ exchange'.status # 429]_vars

\* C13: every request rateLimiter lets through carries the three headers:
\* the limit, the limit minus the count after this request, and
\* firstRequest + WINDOW_MS; the first request of a window included
C13_HeadersOnEveryAllowed ==
    Answered("next")
    => res.headers = <<[limit |-> MAX_REQUESTS,
                        remaining |-> MAX_REQUESTS
                                      - requestStore[res.id].count,
                        reset |-> requestStore[res.id].firstRequest
                                  + WINDOW_MS]>>

\* C14: /navigate answers 400 and does not run detectNavigation when the
\* query is missing, is not a string, is empty once trimmed or is longer
\* than 500 characters once trimmed, as /chat does
C14_NavigateChecksLikeChat ==
    /\ exchange.route = "POST /api/assistant/navigate"
    /\ exchange.pc # "arrived"
    /\ \/ exchange.query.type # "string"
       \/ Len(trim(exchange.query.text)) = 0
       \/ Len(trim(exchange.query.text)) > MaxQueryLength
    => exchange.status = 400 /\ "detectNavigation" \notin Ran

(***************************************************************************)
(* Properties of the matchers.                                             *)
(***************************************************************************)
\* C15: the rules are strictly ordered by what they add to the score: of
\* two scored keywords, the one for which the rule of higher priority fires
\* (1 exact, 2 substring, 3 fuzzy on several words, 4 fuzzy on one word)
\* adds strictly more, whatever the number of words of the keywords
C15_RulesStrictlyOrdered ==
    probe.fn = "keywordScore" /\ probe.pc = "answered"
    => \A i, j \in {1, 2} :
          /\ probe.result[i].rule # 0
          /\ probe.result[j].rule # 0
          /\ probe.result[i].rule < probe.result[j].rule
          => probe.result[i].score > probe.result[j].score

\* the total score matchFAQ (fn = "matchFAQ") or keywordMatch gives an item
\* for a query
ItemScoreOf(fn, item, query) ==
    LET q == trim(toLowerCase(query))
    IN scoreItem(q,
                 queryWordsOf(q, IF fn = "matchFAQ" THEN stopWordsFAQ
                                 ELSE stopWordsNav),
                 item.keywords).score

NarxQancha == <<"n","a","r","x"," ","q","a","n","c","h","a">>

\* the query "narx qancha" was given to matchFAQ with the two entries of
\* keyword "narx" and of keyword "narx qancha", in one order or the other
NarxScenario ==
    /\ probe.fn = "matchFAQ"
    /\ probe.pc = "answered"
    /\ probe.query = NarxQancha
    /\ probe.items \in {<<faqs[1], faqs[2]>>, <<faqs[2], faqs[1]>>}

\* C16 as stated: the entry of keyword "narx" scores 10, the entry of
\* keyword "narx qancha" scores 100 and is the one selected, in both orders
C16_NarxScoresTen ==
    NarxScenario
    => /\ ItemScoreOf("matchFAQ", faqs[1], probe.query) = 10
       /\ ItemScoreOf("matchFAQ", faqs[2], probe.query) = 100
       /\ probe.result # <<>>
       /\ probe.result[1].id = faqs[2].id

\* C16 amended: the entry of keyword "narx" scores 50 (the query contains
\* the keyword: second rule), the entry of keyword "narx qancha" scores 100
\* and is the one selected, in both orders
C16_NarxScoresFifty ==
    NarxScenario
    => /\ ItemScoreOf("matchFAQ", faqs[1], probe.query) = 50
       /\ ItemScoreOf("matchFAQ", faqs[2], probe.query) = 100
       /\ probe.result # <<>>
       /\ probe.result[1].id = faqs[2].id
       /\ probe.result[1].score = 100

\* the entry of keyword "narx" came first and the exact one replaced it
C16_Witness ==
    /\ NarxScenario
    /\ probe.items = <<faqs[1], faqs[2]>>
    /\ probe.result[1].id = faqs[2].id

\* the highest total score among the items of the list of the evaluation
BestScore ==
    LET scores == {ItemScoreOf(probe.fn, probe.items[i], probe.query) :
                     i \in 1..Len(probe.items)}
    IN IF scores = {} THEN 0
       ELSE CHOOSE m \in scores : \A x \in scores : x <= m

\* the first item of the list with the highest total score
FirstBest ==
    CHOOSE i \in 1..Len(probe.items) :
       /\ ItemScoreOf(probe.fn, probe.items[i], probe.query) = BestScore
       /\ \A j \in 1..(i - 1) :
             ItemScoreOf(probe.fn, probe.items[j], probe.query) < BestScore

\* C17: matchFAQ and keywordMatch return null when the list is empty or no
\* item scores 10 or more; else they return the first item of the list
\* among those of the highest total score, with matched = true, that score
\* and matchedKeywords not empty: a later item of equal score does not
\* replace it
C17_FirstBestWins ==
    probe.fn \in {"matchFAQ", "keywordMatch"} /\ probe.pc = "answered"
    => IF probe.items = <<>> \/ BestScore < 10
       THEN probe.result = <<>>
       ELSE /\ probe.result # <<>>
            /\ probe.result[1].matched
            /\ probe.result[1].score = BestScore
            /\ probe.result[1].matchedKeywords # <<>>
            /\ probe.fn = "matchFAQ"
               => probe.result[1].id = probe.items[FirstBest].id
            /\ probe.fn = "keywordMatch"
               => probe.result[1].url = probe.items[FirstBest].url

\* two entries of the list have the highest score, and the first of them
\* was returned
C17_Witness ==
    /\ probe.fn = "matchFAQ"
    /\ probe.pc = "answered"
    /\ Len(probe.items) = 2
    /\ BestScore >= 10
    /\ ItemScoreOf("matchFAQ", probe.items[1], probe.query) = BestScore
    /\ ItemScoreOf("matchFAQ", probe.items[2], probe.query) = BestScore
    /\ probe.result # <<>>
    /\ probe.result[1].id = probe.items[1].id

(***************************************************************************)
(* Properties of the sweep and of the file.                                *)
(***************************************************************************)
\* C18: one run of the sweep removes every record with
\* now - firstRequest > WINDOW_MS and leaves the others as they were, so no
\* expired record remains; it writes the file once, with the store it
\* leaves, when it removed a record, and does not write it otherwise
C18_SweepRemovesExpired ==
    [][sweep("written")
       => /\ \A k \in DOMAIN requestStore :
                IF now - requestStore[k].firstRequest > WINDOW_MS
                THEN k \notin DOMAIN requestStore'
                ELSE /\ k \in DOMAIN requestStore'
                     /\ requestStore'[k] = requestStore[k]
          /\ DOMAIN requestStore' \subseteq DOMAIN requestStore
          /\ \A k \in DOMAIN requestStore' :
                now' - requestStore'[k].firstRequest <= WINDOW_MS
          /\ saves' = IF \E k \in DOMAIN requestStore :
                             now - requestStore[k].firstRequest > WINDOW_MS
                      THEN 1 ELSE 0
          /\ saves' = 1
             => rateLimitFile' = [exists |-> TRUE, data |-> requestStore']
          /\ saves' = 0 => rateLimitFile' = rateLimitFile]_vars

\* a sweep removed the expired record of "c1", kept the record of "c2" and
\* wrote the file
C18_Witness ==
    /\ res = NoResponse
    /\ saves = 1
    /\ windowStart["c1"] + WINDOW_MS < now
    /\ DOMAIN requestStore = {"c2"}
    /\ rateLimitFile.data = requestStore

\* C19: with writes that succeed, what a reload of the file would give has
\* the identifiers of the store, each with the firstRequest it has in the
\* store and a count that is not above the count in the store and at most
\* 4 below it
C19_FileLagsByAtMostFour ==
    LET reloaded == loadRateLimits(rateLimitFile)
    IN /\ DOMAIN reloaded = DOMAIN requestStore
       /\ \A k \in DOMAIN requestStore :
             /\ reloaded[k].firstRequest = requestStore[k].firstRequest
             /\ reloaded[k].count <= requestStore[k].count
             /\ requestStore[k].count - reloaded[k].count <= 4

\* rateLimiter let a request through and the file is 4 requests behind the
\* store, the process never having restarted in the window
C19_Witness ==
    /\ Answered("next")
    /\ ~restarted[res.id]
    /\ requestStore[res.id].count = 9
    /\ rateLimitFile.data[res.id].count = 5

\* C20: for every identifier, rateLimiter and getRateLimitStatus answer
\* the same, and rateLimiter leaves the same record for the identifier, on
\* the store as it is and on the store a sweep would leave
C20_ExpiredIsAbsent ==
    LET swept == MapDelete(requestStore, ExpiredKeys(requestStore, now))
    IN \A id \in Idents :
          /\ Limit(requestStore, id, now).res = Limit(swept, id, now).res
          /\ Limit(requestStore, id, now).store[id]
             = Limit(swept, id, now).store[id]
          /\ RateLimitStatus(id, requestStore, now)
             = RateLimitStatus(id, swept, now)

\* getRateLimitStatus reported the full quota for an identifier whose
\* record, with its quota used up and its window over, is still in the store
C20_Witness ==
    /\ res.op = "getRateLimitStatus"
    /\ res.id \in DOMAIN requestStore
    /\ requestStore[res.id].count = MAX_REQUESTS
    /\ now - requestStore[res.id].firstRequest > WINDOW_MS
    /\ res.remaining = MAX_REQUESTS
    /\ res.resetAt = <<>>

\* C21: from the empty store, whatever rateLimiter calls,
\* getRateLimitStatus calls and sweeps follow as time goes on, every record
\* of the store has 1 <= count <= MAX_REQUESTS and
\* firstRequest <= lastRequest
C21_RecordsWellFormed ==
    \A k \in DOMAIN requestStore :
       /\ 1 <= requestStore[k].count
       /\ requestStore[k].count <= MAX_REQUESTS
       /\ requestStore[k].firstRequest <= requestStore[k].lastRequest

\* a request was denied on a record that holds MAX_REQUESTS requests, the
\* last of them later than the first, while another record holds one request
C21_Witness ==
    /\ Answered("429")
    /\ requestStore[res.id].count = MAX_REQUESTS
    /\ requestStore[res.id].firstRequest < requestStore[res.id].lastRequest
    /\ \E k \in DOMAIN requestStore : requestStore[k].count = 1

(***************************************************************************)
(* Properties of the failures of the file.                                 *)
(***************************************************************************)
\* what the last rateLimiter call would have answered and left in the
\* store, from the record it found in memory, had its write succeeded
AsIfWritten ==
    Limit(IF found = <<>> THEN EmptyMap ELSE MapSet(EmptyMap, res.id, found[1]),
          res.id, res.at)

\* C22: a write of the file that fails is not fatal and changes no
\* decision: whatever the write does, a rateLimiter call answers and leaves
\* the record of its client as it would with a write that succeeds, from
\* the record it found in memory; a sweep leaves the store without its
\* expired records and the process running; and a load that finds no file,
\* or a file it cannot parse, leaves the process running with an empty store
C22_PersistenceFailureNotFatal ==
    /\ [](/\ res # Exited
          /\ res.op = "rateLimiter"
             => /\ res = AsIfWritten.res
                /\ requestStore[res.id] = AsIfWritten.store[res.id])
    /\ [][(\E write \in WriteOutcomes : sweep(write))
          => /\ requestStore'
                = MapDelete(requestStore,
                            {k \in DOMAIN requestStore :
                               now - requestStore[k].firstRequest > WINDOW_MS})
             /\ res' = NoResponse]_vars
    /\ [][Restart
          => /\ ~rateLimitFile.exists \/ "torn" \in DOMAIN rateLimitFile
                => requestStore' = EmptyMap
             /\ res' = NoResponse]_vars

\* a client that never saw a restart is denied its request after
\* MAX_REQUESTS requests, while the file is what a failed write left of it
C22_Witness ==
    /\ Answered("429")
    /\ rateLimitFile = TornFile
    /\ ~restarted[res.id]
    /\ requestStore[res.id].count = MAX_REQUESTS

====
